---- MODULE Spec2Model ----
(***************************************************************************)
(* Model of loadrs (src/src/main.rs): one pass of main's loop samples the  *)
(* processes of the host, sums their CPU usage per user name, derives the  *)
(* fair share, prints the usage table and (under excessive load) the table *)
(* of users above fair share; in live mode the pass repeats after a wait   *)
(* on the Ctrl-C channel.                                                  *)
(*                                                                         *)
(* Numbers.  CPU percentages, thresholds and the load average are f64 in   *)
(* the source; the model takes them from small sets of integers.  The      *)
(* fair share is kept as a fraction [num, den], so that 100.0 / n is exact *)
(* and den = 0 is the IEEE quotient 100.0 / 0.0 = +infinity.  A comparison *)
(* a / cpus > num / den is evaluated by cross multiplication (cpus > 0).   *)
(* Time is counted in ticks; now is the time since start_time (l.48).      *)
(***************************************************************************)
EXTENDS Integers, Sequences, FiniteSets, Bags, TLC

\* ---- bounds of the model ----
MaxProcs == 2          \* processes in a snapshot of a single-shot run
MaxLiveProcs == 1      \* processes in a snapshot of a live run
MaxTime == 3           \* ticks a pass may take
MaxSignals == 2        \* interrupts delivered

\* Ticks per second: Duration::from_secs(cli.interval) is interval * TicksPerSec ticks.
TicksPerSec == 2

\* An Option<T> is the empty set (None) or a singleton (Some(v)).
None == {}
Some(v) == {v}
IsSome(o) == o # {}
Unwrap(o) == CHOOSE v \in o : TRUE

Uids == {1, 2}
UserIds == {None} \cup {Some(u) : u \in Uids}
UsageValues == {0, 1, 120}
Samples == [user_id : UserIds, cpu_usage : UsageValues]
ProcessLists(max) == UNION {[1..n -> Samples] : n \in 0..max}

\* Users::new_with_refreshed_list(): the directory uid -> name.  It may miss
\* uids, give two uids one name, or hold a name that looks like a fallback.
Directories ==
    { <<>>,
      (1 :> "alice") @@ (2 :> "bob"),
      (1 :> "alice") @@ (2 :> "alice"),
      (1 :> "UID:2") }

CoreCounts == {1, 2}
Loads == {1, 3}
Thresholds == {100}
ActiveThresholds == {-1, 1}
FairShareOptions == {None, Some(-1), Some(0), Some(30)}
Intervals == {0, 1}

\* ---- pure parts of the loop body ----

\* l.65-74: the name a process is accounted under.
Username(p, uid_to_name) ==
    IF IsSome(p.user_id) /\ Unwrap(p.user_id) \in DOMAIN uid_to_name
    THEN uid_to_name[Unwrap(p.user_id)]
    ELSE "UID:" \o (IF IsSome(p.user_id) THEN ToString(Unwrap(p.user_id)) ELSE "Unknown")

\* A slip: the entry is set to the usage of the last process, not summed.
AddEntryOverwrite(acc, username, usage) ==
    IF username \in DOMAIN acc
    THEN [acc EXCEPT ![username] = usage]
    ELSE acc @@ (username :> usage)

\* l.80: *acc.entry(username).or_insert(0.0) += usage
AddEntry(acc, username, usage) ==
    IF username \in DOMAIN acc
    THEN [acc EXCEPT ![username] = @ + usage]
    ELSE acc @@ (username :> (0 + usage))

\* l.77-83: the fold over the processes, in iteration order.
RECURSIVE Fold(_, _, _)
Fold(procs, uid_to_name, acc) ==
    IF procs = <<>> THEN acc
    ELSE Fold(Tail(procs), uid_to_name,
              AddEntry(acc, Username(Head(procs), uid_to_name), Head(procs).cpu_usage))

\* l.87: sorted by usage, largest first.
IsSortedDesc(s) == \A i \in 1..Len(s) : \A j \in i..Len(s) : s[i][2] >= s[j][2]

\* l.84-87: the map's entries as a vector, then sort_by.  The map iterates in
\* no fixed order and sort_by is stable, so entries with equal usage come out
\* in any order: the result is any of the sorted arrangements.
SortedEntries(acc) ==
    LET names == DOMAIN acc
        n == Cardinality(names)
    IN { s \in [1..n -> {<<u, acc[u]>> : u \in names}] :
            /\ \A i \in 1..n : \A j \in 1..n : i # j => s[i][1] # s[j][1]
            /\ IsSortedDesc(s) }

\* A slip: >= where the source has >.
ActiveUsersGe(usage, cpus, active_threshold) ==
    Cardinality({i \in 1..Len(usage) : usage[i][2] >= active_threshold * cpus})

\* l.89-92: the number of users with usage / cpus > active_threshold.
ActiveUsers(usage, cpus, active_threshold) ==
    Cardinality({i \in 1..Len(usage) : usage[i][2] > active_threshold * cpus})

\* l.93: cli.fair_share.unwrap_or(100.0 / active_users)
FairShare(fair_share_opt, active_users) ==
    IF IsSome(fair_share_opt)
    THEN [num |-> Unwrap(fair_share_opt), den |-> 1]
    ELSE [num |-> 100, den |-> active_users]

IsFinite(q) == q.den # 0

\* A slip: >= where the source has >.
ShareGe(sum, cpus, q) ==
    IF q.den = 0 THEN FALSE ELSE sum * q.den >= q.num * cpus

\* sum / cpus > q, for a fraction q (l.123, l.163); nothing exceeds +infinity.
ShareGt(sum, cpus, q) ==
    IF q.den = 0 THEN FALSE ELSE sum * q.den > q.num * cpus

\* fair_share * 0.5 (l.125)
Half(q) == [num |-> q.num, den |-> 2 * q.den]

\* l.123-129
RowColor(sum, cpus, fair_share) ==
    IF ShareGt(sum, cpus, fair_share) THEN "red"
    ELSE IF ShareGt(sum, cpus, Half(fair_share)) THEN "yellow"
    ELSE "green"

\* A slip: a row only from one percent on.
HasRowFromOne(sum) == sum > 1

\* l.121: a row is printed for a user with usage above zero.
HasRow(sum) == sum > 0

\* l.120-144: the rows of the usage table, in the order of the list.
RECURSIVE UsageRows(_, _, _)
UsageRows(usage, cpus, fair_share) ==
    IF usage = <<>> THEN <<>>
    ELSE LET e == Head(usage)
             rest == UsageRows(Tail(usage), cpus, fair_share)
         IN IF HasRow(e[2])
            THEN <<[user |-> e[1], sum |-> e[2], color |-> RowColor(e[2], cpus, fair_share)]>> \o rest
            ELSE rest

\* l.152: loadavg.one > (cli.threshold / 100.) * cpus
Excessive(load, threshold, cpus) == load * 100 > threshold * cpus

\* l.162-170: the rows of the table of users above fair share.
RECURSIVE ExcessRows(_, _, _)
ExcessRows(usage, cpus, fair_share) ==
    IF usage = <<>> THEN <<>>
    ELSE LET e == Head(usage)
             rest == ExcessRows(Tail(usage), cpus, fair_share)
         IN IF ShareGt(e[2], cpus, fair_share)
            THEN <<[user |-> e[1], sum |-> e[2]]>> \o rest
            ELSE rest

\* Duration::from_secs (l.179)
FromSecs(secs) == secs * TicksPerSec

\* A slip: plain subtraction.
PlainSub(a, b) == a - b

\* Duration::saturating_sub (l.179)
SaturatingSub(a, b) == IF b > a THEN 0 ELSE a - b

\* l.178-179
SleepDuration(interval, elapsed) == SaturatingSub(FromSecs(interval), elapsed)

\* A slip: the deadline is looked at before the channel.
RecvTimeoutDeadlineFirst(pending, connected, waited, timeout) ==
    IF connected /\ waited >= timeout THEN "Timeout"
    ELSE IF pending > 0 THEN "Ok"
    ELSE IF ~connected THEN "Disconnected"
    ELSE "Blocked"

\* A slip: running out of time is reported as a message.
RecvTimeoutSpurious(pending, connected, waited, timeout) ==
    IF pending > 0 \/ (connected /\ waited >= timeout) THEN "Ok"
    ELSE IF ~connected THEN "Disconnected"
    ELSE "Blocked"

\* rx.recv_timeout (l.182): a pending message is taken at once; with the
\* channel empty the call returns Disconnected when the sender is gone,
\* Timeout when the time has run out, and blocks otherwise.
RecvTimeout(pending, connected, waited, timeout) ==
    IF pending > 0 THEN "Ok"
    ELSE IF ~connected THEN "Disconnected"
    ELSE IF waited >= timeout THEN "Timeout"
    ELSE "Blocked"

\* ---- state ----
VARIABLES
    cli,             \* the parsed options (l.12-31, l.34), fixed for the run
    cpus,            \* sys.cpus().len() (l.52)
    uid_to_name,     \* the user directory (l.55-59)
    pc,              \* where main is: "Idle" (l.43), "Sampling" (l.50),
                     \* "Reporting" (l.95), "Deciding" (l.174), "Sleeping" (l.182),
                     \* "Terminated" (l.196)
    rx,              \* the number of messages pending in the channel (l.36)
    tx_alive,        \* the handler still holds the sender tx (l.38-40)
    now,             \* ticks since start_time (l.48)
    elapsed,         \* l.178
    sleep_duration,  \* l.179
    processes,       \* the bag of samples of this cycle (l.61-63)
    user_cpu_usage,  \* l.61-87
    active_users,    \* l.89-92
    fair_share,      \* l.93
    table,           \* the rows of the usage table (l.111-146)
    loadavg_one,     \* loadavg.one (l.149)
    excessive,       \* whether "Excessive load detected!" was printed (l.152-153)
    excess_table,    \* the rows of the second table (l.155-171)
    early,           \* a signal was sent before the interval had run out since
                     \* the start of the cycle it was sent in
    sent_at          \* where main was when the oldest signal was sent ("none"
                     \* before any signal)

host == <<cli, cpus, uid_to_name, tx_alive>>
sampled == <<processes, user_cpu_usage, active_users, fair_share>>
reported == <<table, loadavg_one, excessive, excess_table>>
vars == <<cli, cpus, uid_to_name, pc, rx, tx_alive, now, elapsed, sleep_duration,
          processes, user_cpu_usage, active_users, fair_share, table, loadavg_one,
          excessive, excess_table, early, sent_at>>

\* The runs explored.  Single-shot runs take every combination of the options
\* that the pass reads under one directory, and every directory under the
\* default options (l.14, l.18, l.24); the interval is not read there and is
\* left at its default (l.26).  Live runs take every interval, with the other
\* options at their defaults, on one host.
SingleShotRuns ==
    [cli : [threshold : Thresholds, active_threshold : ActiveThresholds,
            fair_share : FairShareOptions, interval : {5}, live : {FALSE}],
     cpus : CoreCounts, uid_to_name : {(1 :> "alice") @@ (2 :> "bob")}]
    \cup
    [cli : [threshold : {100}, active_threshold : {1}, fair_share : {None},
            interval : {5}, live : {FALSE}],
     cpus : CoreCounts, uid_to_name : Directories]

LiveRuns ==
    [cli : [threshold : {100}, active_threshold : {1}, fair_share : {None},
            interval : Intervals, live : {TRUE}],
     cpus : {2}, uid_to_name : {(1 :> "alice") @@ (2 :> "bob")}]

NoFairShare == [num |-> 0, den |-> 1]

\* The locals of a pass before l.50 and after l.172, where nothing reads them.
FreshSampled ==
    /\ processes' = EmptyBag
    /\ user_cpu_usage' = <<>>
    /\ active_users' = 0
    /\ fair_share' = NoFairShare

FreshReported ==
    /\ table' = <<>>
    /\ loadavg_one' = 0
    /\ excessive' = FALSE
    /\ excess_table' = <<>>

\* l.34-41: options parsed, channel created, handler installed.
Init ==
    /\ \E run \in SingleShotRuns \cup LiveRuns :
         /\ cli = run.cli
         /\ cpus = run.cpus
         /\ uid_to_name = run.uid_to_name
    /\ pc = "Idle"
    /\ rx = 0
    /\ tx_alive = TRUE
    /\ now = 0
    /\ elapsed = 0
    /\ sleep_duration = 0
    /\ processes = EmptyBag
    /\ user_cpu_usage = <<>>
    /\ active_users = 0
    /\ fair_share = NoFairShare
    /\ table = <<>>
    /\ loadavg_one = 0
    /\ excessive = FALSE
    /\ excess_table = <<>>
    /\ early = FALSE
    /\ sent_at = "none"

\* The samples as a bag: the pids play no part.
RECURSIVE BagOf(_)
BagOf(procs) ==
    IF procs = <<>> THEN EmptyBag ELSE SetToBag({Head(procs)}) (+) BagOf(Tail(procs))

\* l.43-48: a pass begins and start_time is taken.
StartPass ==
    /\ pc' = "Sampling"
    /\ now' = 0

Begin ==
    /\ pc = "Idle"
    /\ StartPass
    /\ UNCHANGED <<host, rx, elapsed, sleep_duration, sampled, reported, early, sent_at>>

\* l.50-93: snapshot, aggregation, active users, fair share.  (elapsed and
\* sleep_duration of the pass before are gone: they are locals of the loop body.)
Sample ==
    /\ pc = "Sampling"
    /\ \E procs \in ProcessLists(IF cli.live THEN MaxLiveProcs ELSE MaxProcs) :
         \E usage \in SortedEntries(Fold(procs, uid_to_name, <<>>)) :
           /\ processes' = BagOf(procs)
           /\ user_cpu_usage' = usage
           /\ active_users' = ActiveUsers(usage, cpus, cli.active_threshold)
           /\ fair_share' = FairShare(cli.fair_share,
                                      ActiveUsers(usage, cpus, cli.active_threshold))
    /\ pc' = "Reporting"
    /\ elapsed' = 0
    /\ sleep_duration' = 0
    /\ UNCHANGED <<host, rx, now, reported, early, sent_at>>

\* l.95-172: the usage table, the load average, the table of users above
\* fair share.
Report ==
    /\ pc = "Reporting"
    /\ table' = UsageRows(user_cpu_usage, cpus, fair_share)
    /\ \E load \in Loads :
         /\ loadavg_one' = load
         /\ excessive' = Excessive(load, cli.threshold, cpus)
         /\ excess_table' = IF Excessive(load, cli.threshold, cpus)
                            THEN ExcessRows(user_cpu_usage, cpus, fair_share)
                            ELSE <<>>
    /\ pc' = "Deciding"
    /\ UNCHANGED <<host, rx, now, elapsed, sleep_duration, sampled, early, sent_at>>

\* A slip: the loop is never left at l.174.
LeavesLoopNever(live) == FALSE

\* l.174: if !cli.live { break; }
LeavesLoop(live) == ~live

\* A slip: the wait is entered with a duration of zero as well.
WaitsAlways(duration) == duration >= 0

\* l.181: if sleep_duration > Duration::from_millis(0)
Waits(duration) == duration > 0

\* l.174-181 (and l.43-48 when the wait is skipped): single-shot mode leaves
\* the loop; live mode computes the wait and either waits or starts over.
Decide ==
    /\ pc = "Deciding"
    /\ FreshSampled
    /\ FreshReported
    /\ IF LeavesLoop(cli.live)
       THEN /\ pc' = "Terminated"
            /\ UNCHANGED <<now, elapsed, sleep_duration>>
       ELSE /\ elapsed' = now
            /\ sleep_duration' = SleepDuration(cli.interval, now)
            /\ IF Waits(SleepDuration(cli.interval, now))
               THEN /\ pc' = "Sleeping"
                    /\ UNCHANGED now
               ELSE StartPass
    /\ UNCHANGED <<host, rx, early, sent_at>>

\* l.182-186: recv_timeout returns Ok(_): break.
RecvOk ==
    /\ pc = "Sleeping"
    /\ RecvTimeout(rx, tx_alive, now - elapsed, sleep_duration) = "Ok"
    /\ rx' = rx - 1
    /\ pc' = "Terminated"
    /\ UNCHANGED <<host, now, elapsed, sleep_duration, sampled, reported, early, sent_at>>

\* l.187 (and l.43-48): recv_timeout returns Err(Timeout): continue.
RecvTimedOut ==
    /\ pc = "Sleeping"
    /\ RecvTimeout(rx, tx_alive, now - elapsed, sleep_duration) = "Timeout"
    /\ StartPass
    /\ UNCHANGED <<host, rx, elapsed, sleep_duration, sampled, reported, early, sent_at>>

\* l.188-191: recv_timeout returns Err(Disconnected): break.
RecvDisconnected ==
    /\ pc = "Sleeping"
    /\ RecvTimeout(rx, tx_alive, now - elapsed, sleep_duration) = "Disconnected"
    /\ pc' = "Terminated"
    /\ UNCHANGED <<host, rx, now, elapsed, sleep_duration, sampled, reported, early, sent_at>>

\* Time passes while a live pass runs or waits; the wait returns no later
\* than its deadline.  (Single-shot mode never reads the clock.)
Tick ==
    /\ cli.live
    /\ pc \in {"Sampling", "Reporting", "Deciding", "Sleeping"}
    /\ now < MaxTime
    /\ pc = "Sleeping" => now - elapsed < sleep_duration
    /\ now' = now + 1
    /\ UNCHANGED <<host, pc, rx, elapsed, sleep_duration, sampled, reported, early, sent_at>>

\* l.38-40: the handler runs on an interrupt and sends into the channel.
Signal ==
    /\ pc # "Terminated"
    /\ tx_alive
    /\ rx < MaxSignals
    /\ rx' = rx + 1
    /\ early' = (early \/ (cli.live /\ pc # "Idle" /\ now < FromSecs(cli.interval)))
    /\ sent_at' = IF sent_at = "none" THEN pc ELSE sent_at
    /\ UNCHANGED <<host, pc, now, elapsed, sleep_duration, sampled, reported>>

\* The handler's thread ends (a failure while it waits for the interrupt) and
\* the closure of l.38-40 is dropped, tx with it: the channel is closed.
\* (Single-shot mode never reads the channel.)
Disconnect ==
    /\ cli.live
    /\ pc # "Terminated"
    /\ tx_alive
    /\ tx_alive' = FALSE
    /\ UNCHANGED <<cli, cpus, uid_to_name, pc, rx, now, elapsed, sleep_duration,
                   sampled, reported, early, sent_at>>

MainStep ==
    Begin \/ Sample \/ Report \/ Decide \/ RecvOk \/ RecvTimedOut \/ RecvDisconnected

Next ==
    \/ Begin \/ Sample \/ Report \/ Decide
    \/ RecvOk \/ RecvTimedOut \/ RecvDisconnected
    \/ Tick \/ Signal \/ Disconnect

Spec == Init /\ [][Next]_vars

\* The runs under the default options on one host: the options and the host
\* have no part in where main goes next.
SchedInit ==
    /\ Init
    /\ cli.threshold = 100
    /\ cli.active_threshold = 1
    /\ cli.fair_share = None
    /\ cpus = 2
    /\ uid_to_name = (1 :> "alice") @@ (2 :> "bob")

\* The main thread keeps running and time keeps passing.
SchedSpec == SchedInit /\ [][Next]_vars /\ WF_vars(MainStep) /\ WF_vars(Tick)

TypeOK ==
    /\ pc \in {"Idle", "Sampling", "Reporting", "Deciding", "Sleeping", "Terminated"}
    /\ rx \in 0..MaxSignals
    /\ tx_alive \in BOOLEAN
    /\ loadavg_one \in Loads \cup {0}
    /\ now \in 0..MaxTime
    /\ early \in BOOLEAN
    /\ sent_at \in {"none", "Idle", "Sampling", "Reporting", "Deciding", "Sleeping"}
    /\ elapsed \in 0..MaxTime
    /\ sleep_duration \in Nat
    /\ active_users \in Nat

\* ---- cancellation and the refresh loop ----

\* A new pass begins in this step.
PassBegins == pc # "Sampling" /\ pc' = "Sampling"

\* C1: in live mode, once a signal has been sent before the interval had run
\* out since the start of the cycle, no further pass begins, however long the
\* cycle takes.
C1_CancellationPrecedence == [][early => ~PassBegins]_vars

\* C2: in live mode a signal that has been sent leads to Terminated, for
\* every interval (0 included) and every cycle duration.
C2_SignalLeadsToTerminated == (cli.live /\ rx > 0) ~> (pc = "Terminated")

\* C3: a signal sent during Sampling or Reporting does not abort the cycle
\* (Sampling is followed by Reporting, Reporting by the decision at l.174, and
\* the report printed is the one of the sampled data), it is not lost (the
\* channel is read only by the wait, which then terminates), and the wait it
\* meets next ends in Terminated and in nothing else.
C3_SignalQueued ==
    /\ [][/\ pc = "Sampling" => pc' \in {"Sampling", "Reporting"}
          /\ pc = "Reporting" => pc' \in {"Reporting", "Deciding"}
          /\ rx' < rx => (pc = "Sleeping" /\ pc' = "Terminated" /\ rx' = rx - 1)
          /\ (pc = "Sleeping" /\ rx > 0) => pc' \in {"Sleeping", "Terminated"}]_vars
    /\ [](pc = "Deciding" => table = UsageRows(user_cpu_usage, cpus, fair_share))

C3_Witness ==
    /\ cli.live
    /\ sent_at \in {"Sampling", "Reporting"}
    /\ pc = "Terminated"

\* C4: in single-shot mode exactly one pass runs (Sampling is entered from
\* Idle and from nowhere else, Reporting follows it and the decision at l.174
\* follows Reporting), the wait on the channel is never entered, and main
\* reaches Terminated from that decision, whether or not signals are sent.
C4_SingleShot ==
    /\ [](~cli.live => pc # "Sleeping")
    /\ [][~cli.live =>
            /\ PassBegins => pc = "Idle"
            /\ pc' = "Idle" => pc = "Idle"
            /\ pc = "Sampling" => pc' \in {"Sampling", "Reporting"}
            /\ pc = "Reporting" => pc' \in {"Reporting", "Deciding"}
            /\ pc = "Deciding" => pc' \in {"Deciding", "Terminated"}
            /\ pc = "Terminated" => pc' = "Terminated"]_vars
    /\ (~cli.live) ~> (pc = "Terminated")

C4_Witness == ~cli.live /\ pc = "Terminated" /\ rx > 0 /\ sent_at = "Sampling"

\* C5: a wait ends in exactly one way: in Terminated with one message taken
\* from the channel, or in a new pass after the timeout with no message
\* taken (a wait on a closed and empty channel, which is neither, ends in
\* Terminated: C15); Terminated is final, and every wait ends.
C5_ExactlyOneTransition ==
    /\ [][(pc = "Sleeping" /\ pc' # "Sleeping") =>
            \/ (pc' = "Terminated" /\ rx > 0 /\ rx' = rx - 1)
            \/ (pc' = "Sampling" /\ rx' = rx /\ now - elapsed >= sleep_duration
                    /\ tx_alive)
            \/ (pc' = "Terminated" /\ ~tx_alive /\ rx = 0 /\ rx' = rx)]_vars
    /\ [][pc = "Terminated" => pc' = "Terminated"]_vars
    /\ (pc = "Sleeping") ~> (pc # "Sleeping")

\* The race: the signal is there as the timeout runs out, and main terminated.
C5_Witness ==
    /\ cli.live
    /\ pc = "Terminated"
    /\ sleep_duration > 0
    /\ now - elapsed = sleep_duration
    /\ sent_at = "Sleeping"

\* ---- aggregation and fair share ----

\* The names the samples of bag B resolve to.
NamesOf(B) == {Username(p, uid_to_name) : p \in BagToSet(B)}

\* The CPU usage of the samples in S, each as often as it is in bag B.
RECURSIVE UsageOf(_, _)
UsageOf(S, B) ==
    IF S = {} THEN 0
    ELSE LET p == CHOOSE q \in S : TRUE
         IN p.cpu_usage * B[p] + UsageOf(S \ {p}, B)

\* The usage of the samples that resolve to name.
TotalOf(name) ==
    UsageOf({p \in BagToSet(processes) : Username(p, uid_to_name) = name}, processes)

RECURSIVE SumOfTotals(_)
SumOfTotals(usage) ==
    IF usage = <<>> THEN 0 ELSE Head(usage)[2] + SumOfTotals(Tail(usage))

Sampled == pc \in {"Reporting", "Deciding"}

\* C6: without an override and with no active user, the fair share is not
\* infinite (a NoActiveUsers outcome takes its place).
C6_NoActiveUsersFinite ==
    (Sampled /\ cli.fair_share = None /\ active_users = 0) => IsFinite(fair_share)

\* The users of the list whose usage / cpus is above the active threshold.
ActiveEntries ==
    {i \in DOMAIN user_cpu_usage :
        user_cpu_usage[i][2] > cli.active_threshold * cpus}

\* C7: with an override the fair share is the override, whatever the number
\* of active users; without one, and with N > 0 users above the active
\* threshold, it is 100 / N.
C7_FairShare ==
    Sampled =>
        LET N == Cardinality(ActiveEntries)
        IN /\ active_users = N
           /\ IsSome(cli.fair_share) =>
                (fair_share.den = 1 /\ fair_share.num = Unwrap(cli.fair_share))
           /\ (cli.fair_share = None /\ N > 0) =>
                (IsFinite(fair_share) /\ fair_share.num * N = 100 * fair_share.den)

C7_Witness ==
    /\ pc = "Reporting"
    /\ cli.fair_share = None
    /\ cli.active_threshold = 1
    /\ active_users = 2
    /\ fair_share = [num |-> 100, den |-> 2]

Max0(x) == IF x > 0 THEN x ELSE 0

\* C8: the wait computed at l.179 is max(0, interval - elapsed): never
\* negative, and zero (the next pass begins at once) when the pass took as
\* long as the interval or longer.
C8_SleepDuration ==
    [][(cli.live /\ pc = "Deciding" /\ pc' # "Deciding") =>
          /\ elapsed' = now
          /\ sleep_duration' = Max0(FromSecs(cli.interval) - elapsed')
          /\ sleep_duration' >= 0
          /\ elapsed' >= FromSecs(cli.interval) => (sleep_duration' = 0 /\ pc' = "Sampling")
          /\ elapsed' < FromSecs(cli.interval) => pc' = "Sleeping"]_vars

C8_Witness ==
    /\ cli.live
    /\ cli.interval > 0
    /\ elapsed > FromSecs(cli.interval)
    /\ sleep_duration = 0
    /\ pc = "Sampling"

\* C9: no user with a summed usage of zero is in the aggregated list, is
\* counted as active, or is listed in a table.
C9_NoZeroUsage ==
    /\ \A i \in DOMAIN user_cpu_usage : user_cpu_usage[i][2] # 0
    /\ Sampled => active_users = Cardinality({i \in ActiveEntries : user_cpu_usage[i][2] # 0})
    /\ \A i \in DOMAIN table : table[i].sum # 0
    /\ \A i \in DOMAIN excess_table : excess_table[i].sum # 0

\* C10: the totals of the list add up to the usage of all samples, the list
\* has one entry per name the samples resolve to, and the total of an entry
\* is the usage of the samples resolving to its name.
C10_SumInvariant ==
    Sampled =>
        /\ SumOfTotals(user_cpu_usage) = UsageOf(BagToSet(processes), processes)
        /\ {user_cpu_usage[i][1] : i \in DOMAIN user_cpu_usage} = NamesOf(processes)
        /\ Len(user_cpu_usage) = Cardinality(NamesOf(processes))
        /\ \A i \in DOMAIN user_cpu_usage :
              user_cpu_usage[i][2] = TotalOf(user_cpu_usage[i][1])

\* Two user ids, one in the directory under a name that is the fallback name
\* of the other, are summed under that one name.
C10_Witness ==
    /\ pc = "Reporting"
    /\ uid_to_name = (1 :> "UID:2")
    /\ user_cpu_usage = << <<"UID:2", 121>> >>

\* ---- the report ----

\* The users of the list with usage above zero.
UsersWithUsage == {user_cpu_usage[i][1] : i \in {j \in DOMAIN user_cpu_usage : user_cpu_usage[j][2] > 0}}

\* C11: a pass that has begun is not cut short: for every snapshot the
\* sampling step yields a list, Sampling is followed by Reporting and
\* Reporting by the decision at l.174, main sleeps, terminates or starts over
\* only from there (or from the wait), and the usage table is printed, with a
\* row for every user with usage, also when no user is active.
C11_EveryPassReports ==
    /\ [](pc = "Sampling" =>
            \A procs \in ProcessLists(IF cli.live THEN MaxLiveProcs ELSE MaxProcs) :
                SortedEntries(Fold(procs, uid_to_name, <<>>)) # {})
    /\ [][/\ pc = "Sampling" => pc' \in {"Sampling", "Reporting"}
          /\ pc = "Reporting" => pc' \in {"Reporting", "Deciding"}
          /\ (pc' = "Sleeping" /\ pc # "Sleeping") => pc = "Deciding"
          /\ (pc' = "Terminated" /\ pc # "Terminated") => pc \in {"Deciding", "Sleeping"}
          /\ PassBegins => pc \in {"Idle", "Deciding", "Sleeping"}]_vars
    /\ [](pc = "Deciding" =>
            /\ {table[i].user : i \in DOMAIN table} = UsersWithUsage
            /\ Len(table) = Cardinality(UsersWithUsage)
            /\ loadavg_one \in Loads)

\* The table is printed with rows in a pass without an active user.
C11_Witness ==
    /\ pc = "Deciding"
    /\ cli.fair_share = None
    /\ active_users = 0
    /\ Len(table) = 2

\* The places of the list whose share is above the fair share.
Exceeding ==
    {i \in DOMAIN user_cpu_usage :
        /\ IsFinite(fair_share)
        /\ user_cpu_usage[i][2] * fair_share.den > fair_share.num * cpus}

\* The k-th of the places in S, in ascending order.
Kth(S, k) == CHOOSE i \in S : Cardinality({j \in S : j <= i}) = k

\* C12: the second table has rows only in a pass with excessive load
\* (loadavg.one > threshold / 100 * cpus) and with a fair share (not in a pass
\* without override and without active users); its rows are then the users
\* whose share is above the fair share, in the order of the list.
C12_ExceedingList ==
    pc = "Deciding" =>
        /\ excessive = (loadavg_one * 100 > cli.threshold * cpus)
        /\ ~excessive => excess_table = <<>>
        /\ (cli.fair_share = None /\ active_users = 0) => excess_table = <<>>
        /\ excessive =>
             /\ Len(excess_table) = Cardinality(Exceeding)
             /\ \A k \in DOMAIN excess_table :
                   /\ excess_table[k].user = user_cpu_usage[Kth(Exceeding, k)][1]
                   /\ excess_table[k].sum = user_cpu_usage[Kth(Exceeding, k)][2]
        /\ IsSortedDesc(user_cpu_usage)

\* One of two users is above the fair share, the other is not.
C12_Witness ==
    /\ pc = "Deciding"
    /\ excessive
    /\ Len(user_cpu_usage) = 2
    /\ Len(excess_table) = 1
    /\ cli.fair_share = None

\* C13: with a wait of zero main does not read the channel and goes from the
\* report to the next pass; the channel is read only in a wait of a positive
\* duration.
C13_ZeroSleepSkipsWait ==
    /\ [][(cli.live /\ pc = "Deciding" /\ pc' # "Deciding") =>
            /\ sleep_duration' = 0 => (pc' = "Sampling" /\ rx' = rx)
            /\ sleep_duration' > 0 => pc' = "Sleeping"]_vars
    /\ [](pc = "Sleeping" => sleep_duration > 0)
    /\ [][rx' < rx => (pc = "Sleeping" /\ sleep_duration > 0)]_vars

\* The pass took just the interval; the next pass has begun with a message
\* still in the channel.
C13_Witness ==
    /\ cli.live
    /\ cli.interval > 0
    /\ pc = "Sampling"
    /\ elapsed = FromSecs(cli.interval)
    /\ sleep_duration = 0
    /\ rx > 0

\* C14: the handler sends at most one message in the life of the process:
\* the channel never holds more than one.
C14_AtMostOneMessage == rx <= 1

\* C15: in live mode, once the channel is closed (the sender is gone) while
\* main is in its loop, no further pass begins.
C15_ClosedChannelTerminates == [][(cli.live /\ ~tx_alive /\ pc # "Idle") => ~PassBegins]_vars

\* C16: in a pass with excessive load, the users of the second table are the
\* users with a red row in the usage table.
C16_ExceedingIsRed ==
    (pc = "Deciding" /\ excessive) =>
        {excess_table[i].user : i \in DOMAIN excess_table}
            = {table[i].user : i \in {j \in DOMAIN table : table[j].color = "red"}}
====
